---------------------------- MODULE Spec2Model ----------------------------
(***************************************************************************)
(* tpm2_luks: a LUKS2 container whose keyslot key is HMAC(slice_a, secret), *)
(* where (slice_a, slice_b) = Argon2(passphrase, salt) and secret is sealed *)
(* into the TPM under auth slice_b.  The model follows main.rs (workflows   *)
(* setup / unlock and the entry point), luks.rs (container and header       *)
(* tokens) and tpm.rs (session, RNG, seal, unseal).                         *)
(*                                                                         *)
(* Each invocation of the program is a process; every call that reaches    *)
(* the TPM or the container is one step of it, because each such call can  *)
(* fail on its own and, with two invocations, can interleave.              *)
(*                                                                         *)
(* Argon2 and HMAC-SHA-256 are modelled as free constructors (two outputs  *)
(* are equal exactly when their inputs are); the TPM RNG returns a fresh   *)
(* byte string on every call; a sealed object is a TPM-side table entry    *)
(* named by the bytes of its exported blobs.  Base64 is computed byte by   *)
(* byte.                                                                   *)
(*                                                                         *)
(* Spec runs the program one invocation at a time from a blank or foreign  *)
(* device, SpecConc runs two invocations at once, SpecDevice runs it on a  *)
(* device enrolled by a compatible tool, and SpecHeader applies the two    *)
(* header functions of luks.rs to devices and payloads of any content.     *)
(***************************************************************************)
EXTENDS Integers, Sequences, FiniteSets, TLC

VARIABLES
    proc,       \* per invocation: position, arguments, locals, result
    container,  \* the LUKS2 device: header present, keyslots, header tokens
    mapped,     \* /dev/mapper/data exists
    tpm,        \* TPM: sealed objects, RNG draws, dictionary-attack counter
    ghost       \* history used only to state the claims

vars == <<proc, container, mapped, tpm, ghost>>

---------------------------------------------------------------------------
(* Bounds of the model *)

MaxSetups == 2      \* setup runs, one invocation at a time
MaxTries == 2       \* failed authorisations before the TPM locks out
MaxPayloadLen == 3  \* longest payload handed to luks2_store_tpm_tokens

Procs == {1, 2}

---------------------------------------------------------------------------
(* Program constants *)

SaltLen == 64               \* main.rs:53
SecretLen == 64             \* main.rs:57
SaltToken == 1              \* luks.rs:62
PubToken == 2               \* luks.rs:63
PrivToken == 3              \* luks.rs:64
Argon2MinSaltLen == 8       \* argon2 rejects shorter salts; main.rs:29 unwraps

Whitespace == {" ", "\t", "\n"}

\* Command lines: argv[1] is the program name.
ArgVectors ==
    { <<"prog", "setup", "dev">>,
      <<"prog", "unlock", "dev">>,
      <<"prog", "close", "dev">>,
      <<"prog", "setup">>,
      <<"prog", "unlock", "dev", "data">> }

\* What the user types at the prompt, one character per element.
Typed ==
    { <<"a">>, <<"b">>, <<" ", "a", "\n">> }

---------------------------------------------------------------------------
(* read_password: str::trim *)

RECURSIVE TrimStart(_)
TrimStart(s) ==
    IF s # <<>> /\ Head(s) \in Whitespace THEN TrimStart(Tail(s)) ELSE s

RECURSIVE TrimEnd(_)
TrimEnd(s) ==
    IF s # <<>> /\ s[Len(s)] \in Whitespace
    THEN TrimEnd(SubSeq(s, 1, Len(s) - 1))
    ELSE s

\* A faulty variant of trim: only the front of the text is stripped.
trim_start_only(s) == TrimStart(s)

\* str::trim (main.rs:118)
trim(s) == TrimEnd(TrimStart(s))

---------------------------------------------------------------------------
(* base64::engine::general_purpose::STANDARD *)

B64Alphabet ==
    << "A","B","C","D","E","F","G","H","I","J","K","L","M","N","O","P",
       "Q","R","S","T","U","V","W","X","Y","Z","a","b","c","d","e","f",
       "g","h","i","j","k","l","m","n","o","p","q","r","s","t","u","v",
       "w","x","y","z","0","1","2","3","4","5","6","7","8","9","+","/" >>

\* A faulty variant of B64Char: the URL-safe alphabet, which the decoder of
\* read_token does not accept.
B64CharUrlSafe(v) ==
    IF v = 62 THEN "-" ELSE IF v = 63 THEN "_" ELSE B64Alphabet[v + 1]

B64Char(v) == B64Alphabet[v + 1]
B64Symbols == {B64Alphabet[i] : i \in 1..64}
B64Index == [c \in B64Symbols |-> (CHOOSE i \in 1..64 : B64Alphabet[i] = c) - 1]
IsB64Char(c) == c \in B64Symbols
B64Val(c) == B64Index[c]

RECURSIVE BASE64_encode(_)
BASE64_encode(bs) ==
    IF Len(bs) = 0 THEN <<>>
    ELSE IF Len(bs) = 1 THEN
        << B64Char(bs[1] \div 4), B64Char((bs[1] % 4) * 16), "=", "=" >>
    ELSE IF Len(bs) = 2 THEN
        << B64Char(bs[1] \div 4),
           B64Char((bs[1] % 4) * 16 + bs[2] \div 16),
           B64Char((bs[2] % 16) * 4), "=" >>
    ELSE
        << B64Char(bs[1] \div 4),
           B64Char((bs[1] % 4) * 16 + bs[2] \div 16),
           B64Char((bs[2] % 16) * 4 + bs[3] \div 64),
           B64Char(bs[3] % 64) >>
        \o BASE64_encode(SubSeq(bs, 4, Len(bs)))

DecodeErr == [ok |-> FALSE, bytes |-> <<>>]

\* BASE64.decode: whole groups of four characters; canonical padding is
\* required and the unused trailing bits must be zero.
BASE64_decode(cs) ==
    LET n == Len(cs)
        pad == IF n < 4 \/ cs[n] # "=" THEN 0
               ELSE IF cs[n - 1] = "=" THEN 2 ELSE 1
        wellformed ==
            /\ n % 4 = 0
            /\ \A i \in 1..(n - pad) : IsB64Char(cs[i])
            /\ pad = 1 => B64Val(cs[n - 1]) % 4 = 0
            /\ pad = 2 => B64Val(cs[n - 2]) % 16 = 0
        byte(k) ==
            LET q == 4 * ((k - 1) \div 3)
                r == (k - 1) % 3
            IN  IF r = 0
                THEN B64Val(cs[q + 1]) * 4 + B64Val(cs[q + 2]) \div 16
                ELSE IF r = 1
                THEN (B64Val(cs[q + 2]) % 16) * 16 + B64Val(cs[q + 3]) \div 4
                ELSE (B64Val(cs[q + 3]) % 4) * 64 + B64Val(cs[q + 4])
    IN  IF ~wellformed THEN DecodeErr
        ELSE [ok |-> TRUE,
              bytes |-> [k \in 1..(3 * (n \div 4) - pad) |-> byte(k)]]

---------------------------------------------------------------------------
(* Crypto helpers (main.rs) *)

\* Argon2::hash_password_into fails on a salt shorter than 8 bytes, and
\* derive_key unwraps that result.
derive_key_panics(password, salt) == Len(salt) < Argon2MinSaltLen

\* The 64 output bytes as their two 32-byte halves.
derive_key(password, salt) ==
    << [half |-> "a", password |-> password, salt |-> salt],
       [half |-> "b", password |-> password, salt |-> salt] >>

\* kdf_output.split_at(32)
slice_a_of(kdf_output) == kdf_output[1]
slice_b_of(kdf_output) == kdf_output[2]

compute_hmac(key, data) == [key |-> key, data |-> data]

NoKdf == << [half |-> "-", password |-> <<>>, salt |-> <<>>],
            [half |-> "-", password |-> <<>>, salt |-> <<>>] >>
NoKey == [key |-> NoKdf[1], data |-> <<>>]

---------------------------------------------------------------------------
(* Hardware sealer (tpm.rs) *)

\* tpm_random_bytes: the n-th draw of the hardware RNG, len bytes long.
\* Draws never repeat.
tpm_random_bytes(n, len) == [i \in 1..len |-> (n * 16 + i) % 256]

\* The exported halves of the id-th sealed object: sealed_pub.marshall()
\* (type, name algorithm, unique) and the private blob.
marshall_pub(id) == << 8, 11, id >>
private_blob(id) == << 222, id >>

\* Public::unmarshall / Private::try_from followed by ctx.load: the two blobs
\* must be the two halves of one object made under this primary key.
LoadedObject(t, pub_bytes, priv_bytes) ==
    { id \in 1..Len(t.sealed) :
        pub_bytes = marshall_pub(id) /\ priv_bytes = private_blob(id) }

LockedOut(t) == t.failedTries >= MaxTries

\* seal_secret: ctx.create of a sealed-data object holding secret, with auth
\* pin; the object is the next entry of the TPM's table.
seal_secret(t, secret, pin) ==
    [t EXCEPT !.sealed = Append(@, [secret |-> secret, pin |-> pin])]

\* A faulty variant of unseal_secret: the auth value is not compared.
unseal_secret_any_pin(t, pub_bytes, priv_bytes, pin) ==
    LET objs == LoadedObject(t, pub_bytes, priv_bytes) IN
    IF objs = {} THEN
        [err |-> "LoadFailure", secret |-> <<>>, tpm |-> t]
    ELSE
        [err |-> "none",
         secret |-> t.sealed[CHOOSE id \in objs : TRUE].secret,
         tpm |-> t]

\* unseal_secret as the TPM answers it: load, tr_set_auth(pin), unseal.
\* A wrong pin is counted by the dictionary-attack logic (no_da is false,
\* tpm.rs:67); once locked out the TPM refuses the authorisation.
unseal_secret(t, pub_bytes, priv_bytes, pin) ==
    LET objs == LoadedObject(t, pub_bytes, priv_bytes) IN
    IF objs = {} THEN
        [err |-> "LoadFailure", secret |-> <<>>, tpm |-> t]
    ELSE
        LET obj == t.sealed[CHOOSE id \in objs : TRUE] IN
        IF LockedOut(t) THEN
            [err |-> "HardwareLockedOut", secret |-> <<>>, tpm |-> t]
        ELSE IF obj.pin # pin THEN
            [err |-> "AuthFailure", secret |-> <<>>,
             tpm |-> [t EXCEPT !.failedTries = @ + 1]]
        ELSE
            [err |-> "none", secret |-> obj.secret, tpm |-> t]

---------------------------------------------------------------------------
(* Container store (luks.rs) *)

NoTokens == [i \in {} |-> <<>>]

\* A device that holds no LUKS2 header.
BlankContainer == [luks |-> FALSE, keyslots |-> <<>>, tokens |-> NoTokens]

\* A LUKS2 device made by another tool: one keyslot, no tokens.
ForeignKey == [key |-> NoKdf[1], data |-> <<70>>]
ForeignContainer ==
    [luks |-> TRUE, keyslots |-> <<ForeignKey>>, tokens |-> NoTokens]

\* A faulty variant of crypt_format: the keyslots of the old header survive.
crypt_format_keeps_keyslots(c) ==
    [luks |-> TRUE, keyslots |-> c.keyslots, tokens |-> NoTokens]

\* luks_format, first call: context_handle().format writes a new header;
\* what the device held before is gone.
crypt_format(c) == [luks |-> TRUE, keyslots |-> <<>>, tokens |-> NoTokens]

\* luks_format, second call: keyslot_handle().add_by_key(None, ..) takes the
\* first free keyslot.  Keyslot k is keyslots[k + 1].
add_by_key(c, key_data) == [c EXCEPT !.keyslots = Append(@, key_data)]

\* The JSON value luks2_store_tpm_tokens builds for one token.
token_json(token_type, data) ==
    [type |-> token_type,
     keyslots |-> <<>>,
     key_description |-> BASE64_encode(data)]

\* A faulty variant of json_set: the token lands in the slot after the one asked for.
json_set_next_slot(c, id, value) ==
    [c EXCEPT !.tokens =
        [i \in (DOMAIN c.tokens) \cup {id + 1} |->
            IF i = id + 1 THEN value ELSE c.tokens[i]]]

\* token_handle().json_set(TokenInput::ReplaceToken(id, value))
json_set(c, id, value) ==
    [c EXCEPT !.tokens =
        [i \in (DOMAIN c.tokens) \cup {id} |->
            IF i = id THEN value ELSE c.tokens[i]]]

\* A faulty variant of store_tokens: the two blobs go to each other's slot.
store_tokens_swapped(salt, pub_bytes, priv_bytes) ==
    << [id |-> SaltToken, type |-> "user.salt", data |-> salt],
       [id |-> PubToken, type |-> "user.obj_pub", data |-> priv_bytes],
       [id |-> PrivToken, type |-> "user.obj_priv", data |-> pub_bytes] >>

\* The three tokens of luks2_store_tpm_tokens, in the order it writes them.
store_tokens(salt, pub_bytes, priv_bytes) ==
    << [id |-> SaltToken, type |-> "user.salt", data |-> salt],
       [id |-> PubToken, type |-> "user.obj_pub", data |-> pub_bytes],
       [id |-> PrivToken, type |-> "user.obj_priv", data |-> priv_bytes] >>

\* A faulty variant of read_token: a token that is not there reads as an empty payload.
read_token_missing_is_empty(c, id) ==
    IF id \notin DOMAIN c.tokens THEN
        [err |-> "none", bytes |-> <<>>]
    ELSE
        LET d == BASE64_decode(c.tokens[id].key_description) IN
        IF d.ok THEN [err |-> "none", bytes |-> d.bytes]
        ELSE [err |-> "RecordCorrupt", bytes |-> <<>>]

\* read_token: json_get(id), the key_description string, BASE64.decode.
read_token(c, id) ==
    IF id \notin DOMAIN c.tokens THEN
        [err |-> "RecordMissing", bytes |-> <<>>]
    ELSE IF "key_description" \notin DOMAIN c.tokens[id] THEN
        [err |-> "RecordCorrupt", bytes |-> <<>>]
    ELSE
        LET d == BASE64_decode(c.tokens[id].key_description) IN
        IF d.ok THEN [err |-> "none", bytes |-> d.bytes]
        ELSE [err |-> "RecordCorrupt", bytes |-> <<>>]

\* luks2_load_tpm_tokens: load the LUKS2 header, then tokens 1, 2, 3; the
\* first failure is the result.  A device without a header has no records.
luks2_load_tpm_tokens(c) ==
    LET s == read_token(c, SaltToken)
        u == read_token(c, PubToken)
        r == read_token(c, PrivToken)
        fail(e) == [err |-> e, salt |-> <<>>,
                    pub_bytes |-> <<>>, priv_bytes |-> <<>>]
    IN  IF ~c.luks THEN fail("RecordMissing")
        ELSE IF s.err # "none" THEN fail(s.err)
        ELSE IF u.err # "none" THEN fail(u.err)
        ELSE IF r.err # "none" THEN fail(r.err)
        ELSE [err |-> "none", salt |-> s.bytes,
              pub_bytes |-> u.bytes, priv_bytes |-> r.bytes]

\* luks_open: activate_by_passphrase(Some(name), None, final_key, ..)
luks_open(c, final_key, active) ==
    IF ~c.luks THEN "DeviceError"
    ELSE IF \A k \in 1..Len(c.keyslots) : c.keyslots[k] # final_key
        THEN "WrongKey"
    ELSE IF active THEN "AlreadyActive"
    ELSE "none"

---------------------------------------------------------------------------
(* State *)

\* What the last complete setup installed (history only).
NoSetup ==
    [valid |-> FALSE, password |-> <<>>, salt |-> <<>>, secret |-> <<>>,
     final_key |-> NoKey, pub_bytes |-> <<>>, priv_bytes |-> <<>>]

\* A process that is not running.  Above the line of dashes are the
\* program's own values; below it, history of the current invocation that
\* the claims refer to.
IdleProc ==
    [pc |-> "idle",
     args |-> <<>>, typed |-> <<>>, password |-> <<>>,
     ctx |-> FALSE, device |-> FALSE,
     salt |-> <<>>, kdf_output |-> NoKdf, secret |-> <<>>,
     final_key |-> NoKey, pub_bytes |-> <<>>, priv_bytes |-> <<>>,
     tok |-> 0, err |-> "none", step |-> "", exit_code |-> 0,
     \* ------------------------------------------------------------
     called |-> "", prompted |-> FALSE, sessions |-> 0, draws |-> 0,
     seals |-> 0, unseals |-> 0, burned |-> 0, formats |-> 0,
     hw_secret |-> <<>>, key_used |-> NoKey, activated |-> FALSE,
     pre |-> BlankContainer, old |-> NoSetup]

Init ==
    /\ proc = [p \in Procs |-> IdleProc]
    /\ container \in {BlankContainer, ForeignContainer}
    /\ mapped = FALSE
    /\ tpm = [sealed |-> <<>>, draws |-> 0, failedTries |-> 0]
    /\ ghost = [installed |-> NoSetup, replaced |-> NoSetup,
                setups |-> 0, salts |-> {}, secrets |-> {}]

\* A faulty variant of Return: the TPM context outlives the workflow.
ReturnKeepsSession(r, e, s) ==
    [r EXCEPT !.pc = "idle", !.device = FALSE, !.err = e, !.step = s,
              !.exit_code = IF e = "none" THEN 0 ELSE 1]

\* The workflow function returns to main with error e raised at step s (or
\* with Ok) and main returns: the TPM context is dropped with the other
\* locals, whose last values stay visible as history until the next run.
Return(r, e, s) ==
    [r EXCEPT !.pc = "idle", !.ctx = FALSE, !.device = FALSE,
              !.err = e, !.step = s,
              !.exit_code = IF e = "none" THEN 0 ELSE 1]

Set(p, r) == proc' = [proc EXCEPT ![p] = r]

---------------------------------------------------------------------------
(* Entry point (main.rs:116-153) *)

\* main up to the call of setup or unlock: the argument count, the verb,
\* the prompt.  limit bounds the runs of setup.
\* A faulty variant of Main: the password is asked for before the verb is looked at.
MainPromptsFirst(p, limit) ==
    /\ proc[p].pc = "idle"
    /\ \E argv \in ArgVectors :
        LET r == [IdleProc EXCEPT !.args = argv, !.pre = container] IN
        IF Len(argv) # 3 THEN
            /\ Set(p, [r EXCEPT !.err = "Usage", !.step = "args",
                                !.exit_code = 1])
            /\ UNCHANGED ghost
        ELSE
            \/ /\ Set(p, [r EXCEPT !.err = "PromptError",
                                   !.step = "read_password",
                                   !.prompted = TRUE, !.exit_code = 1])
               /\ UNCHANGED ghost
            \/ \E typed \in Typed :
               IF argv[2] \notin {"setup", "unlock"} THEN
                   /\ Set(p, [r EXCEPT !.typed = typed,
                                       !.password = trim(typed),
                                       !.prompted = TRUE,
                                       !.err = "Usage", !.step = "verb",
                                       !.exit_code = 1])
                   /\ UNCHANGED ghost
               ELSE
                   /\ argv[2] = "setup" => ghost.setups < limit
                   /\ Set(p, [r EXCEPT !.typed = typed,
                                       !.password = trim(typed),
                                       !.prompted = TRUE,
                                       !.called = argv[2],
                                       !.pc = IF argv[2] = "setup"
                                              THEN "setup_primary"
                                              ELSE "unlock_load"])
                   /\ ghost' = [ghost EXCEPT !.setups =
                                   IF argv[2] = "setup" THEN @ + 1 ELSE @]
    /\ UNCHANGED <<container, mapped, tpm>>

\* main (main.rs:128-153) with read_password (main.rs:116-119)
Main(p, limit) ==
    /\ proc[p].pc = "idle"
    /\ \E argv \in ArgVectors :
        LET r == [IdleProc EXCEPT !.args = argv, !.pre = container] IN
        IF Len(argv) # 3 THEN
            /\ Set(p, [r EXCEPT !.err = "Usage", !.step = "args",
                                !.exit_code = 1])
            /\ UNCHANGED ghost
        ELSE IF argv[2] \notin {"setup", "unlock"} THEN
            /\ Set(p, [r EXCEPT !.err = "Usage", !.step = "verb",
                                !.exit_code = 1])
            /\ UNCHANGED ghost
        ELSE
            \/ \* rpassword::prompt_password fails
               /\ Set(p, [r EXCEPT !.err = "PromptError",
                                   !.step = "read_password",
                                   !.prompted = TRUE, !.exit_code = 1])
               /\ UNCHANGED ghost
            \/ \E typed \in Typed :
               /\ argv[2] = "setup" => ghost.setups < limit
               /\ Set(p, [r EXCEPT !.typed = typed,
                                   !.password = trim(typed),
                                   !.prompted = TRUE,
                                   !.called = argv[2],
                                   !.pc = IF argv[2] = "setup"
                                          THEN "setup_primary"
                                          ELSE "unlock_load"])
               /\ ghost' = [ghost EXCEPT !.setups =
                               IF argv[2] = "setup" THEN @ + 1 ELSE @]
    /\ UNCHANGED <<container, mapped, tpm>>

---------------------------------------------------------------------------
(* tpm::create_primary (tpm.rs:93-109), called by setup and by unlock *)

\* A faulty variant of CreatePrimary: when the TPM cannot be reached the workflow goes
\* on without it.
CreatePrimaryOrGoOn(p) ==
    /\ proc[p].pc \in {"setup_primary", "unlock_primary"}
    /\ \/ Set(p, [proc[p] EXCEPT !.pc = IF proc[p].pc = "setup_primary"
                                        THEN "setup_salt"
                                        ELSE "unlock_unseal"])
       \/ Set(p, [proc[p] EXCEPT !.ctx = TRUE,
                                 !.sessions = @ + 1,
                                 !.pc = IF proc[p].pc = "setup_primary"
                                        THEN "setup_salt"
                                        ELSE "unlock_unseal"])
    /\ UNCHANGED <<container, mapped, tpm, ghost>>

\* A faulty variant of CreatePrimary: the context is closed once the primary key exists.
CreatePrimaryClosesSession(p) ==
    /\ proc[p].pc \in {"setup_primary", "unlock_primary"}
    /\ \/ Set(p, Return(proc[p], "HardwareUnavailable", "create_primary"))
       \/ Set(p, [proc[p] EXCEPT !.ctx = FALSE,
                                 !.sessions = @ + 1,
                                 !.pc = IF proc[p].pc = "setup_primary"
                                        THEN "setup_salt"
                                        ELSE "unlock_unseal"])
    /\ UNCHANGED <<container, mapped, tpm, ghost>>

CreatePrimary(p) ==
    /\ proc[p].pc \in {"setup_primary", "unlock_primary"}
    /\ \/ \* Context::new or ctx.create_primary fails
          Set(p, Return(proc[p], "HardwareUnavailable", "create_primary"))
       \/ Set(p, [proc[p] EXCEPT !.ctx = TRUE,
                                 !.sessions = @ + 1,
                                 !.pc = IF proc[p].pc = "setup_primary"
                                        THEN "setup_salt"
                                        ELSE "unlock_unseal"])
    /\ UNCHANGED <<container, mapped, tpm, ghost>>

---------------------------------------------------------------------------
(* setup (main.rs:50-79) *)

\* main.rs:53-55: the salt from the TPM RNG, then derive_key.
SetupSalt(p) ==
    /\ proc[p].pc = "setup_salt"
    /\ \/ /\ Set(p, Return(proc[p], "HardwareUnavailable", "random_bytes"))
          /\ UNCHANGED <<tpm, ghost>>
       \/ LET salt == tpm_random_bytes(tpm.draws + 1, SaltLen) IN
          /\ tpm' = [tpm EXCEPT !.draws = @ + 1]
          /\ IF derive_key_panics(proc[p].password, salt)
             THEN Set(p, [Return(proc[p], "Panic", "derive_key")
                            EXCEPT !.exit_code = 101, !.draws = @ + 1])
             ELSE Set(p, [proc[p] EXCEPT
                            !.salt = salt,
                            !.draws = @ + 1,
                            !.kdf_output = derive_key(proc[p].password, salt),
                            !.pc = "setup_secret"])
          /\ ghost' = [ghost EXCEPT !.salts = @ \cup {salt}]
    /\ UNCHANGED <<container, mapped>>

\* main.rs:57-58: the secret from the TPM RNG, then the final key.
SetupSecret(p) ==
    /\ proc[p].pc = "setup_secret"
    /\ \/ /\ Set(p, Return(proc[p], "HardwareUnavailable", "random_bytes"))
          /\ UNCHANGED <<tpm, ghost>>
       \/ LET secret == tpm_random_bytes(tpm.draws + 1, SecretLen) IN
          /\ tpm' = [tpm EXCEPT !.draws = @ + 1]
          /\ Set(p, [proc[p] EXCEPT
                        !.secret = secret,
                        !.draws = @ + 1,
                        !.hw_secret = secret,
                        !.final_key =
                            compute_hmac(slice_a_of(proc[p].kdf_output),
                                         secret),
                        !.pc = "setup_seal"])
          /\ ghost' = [ghost EXCEPT !.secrets = @ \cup {secret}]
    /\ UNCHANGED <<container, mapped>>

\* A faulty variant of SetupSeal: a seal that fails does not stop the workflow.
SetupSealIgnoresFailure(p) ==
    /\ proc[p].pc = "setup_seal"
    /\ \/ /\ Set(p, [proc[p] EXCEPT !.pc = "setup_format"])
          /\ UNCHANGED tpm
       \/ LET t == seal_secret(tpm, proc[p].secret,
                               slice_b_of(proc[p].kdf_output))
          IN  /\ tpm' = t
              /\ Set(p, [proc[p] EXCEPT
                            !.pub_bytes = marshall_pub(Len(t.sealed)),
                            !.priv_bytes = private_blob(Len(t.sealed)),
                            !.seals = @ + 1,
                            !.pc = "setup_format"])
    /\ UNCHANGED <<container, mapped, ghost>>

\* A faulty variant of SetupSeal: the private blob handed back is the secret itself.
SetupSealExportsSecret(p) ==
    /\ proc[p].pc = "setup_seal"
    /\ \/ /\ Set(p, Return(proc[p], "SealFailure", "seal_secret"))
          /\ UNCHANGED tpm
       \/ LET t == seal_secret(tpm, proc[p].secret,
                               slice_b_of(proc[p].kdf_output))
          IN  /\ tpm' = t
              /\ Set(p, [proc[p] EXCEPT
                            !.pub_bytes = marshall_pub(Len(t.sealed)),
                            !.priv_bytes = proc[p].secret,
                            !.seals = @ + 1,
                            !.pc = "setup_format"])
    /\ UNCHANGED <<container, mapped, ghost>>

\* main.rs:64-65: seal the secret under auth slice_b.
SetupSeal(p) ==
    /\ proc[p].pc = "setup_seal"
    /\ \/ /\ Set(p, Return(proc[p], "SealFailure", "seal_secret"))
          /\ UNCHANGED tpm
       \/ LET t == seal_secret(tpm, proc[p].secret,
                               slice_b_of(proc[p].kdf_output))
          IN  /\ tpm' = t
              /\ Set(p, [proc[p] EXCEPT
                            !.pub_bytes = marshall_pub(Len(t.sealed)),
                            !.priv_bytes = private_blob(Len(t.sealed)),
                            !.seals = @ + 1,
                            !.pc = "setup_format"])
    /\ UNCHANGED <<container, mapped, ghost>>

\* main.rs:68, luks.rs:15-22: CryptInit::init and format.
SetupFormat(p) ==
    /\ proc[p].pc = "setup_format"
    /\ \/ /\ Set(p, Return(proc[p], "DeviceError", "luks_format"))
          /\ UNCHANGED <<container, ghost>>
       \/ /\ container' = crypt_format(container)
          /\ ghost' = [ghost EXCEPT !.installed = NoSetup]
          /\ Set(p, [proc[p] EXCEPT !.formats = @ + 1,
                                    !.device = TRUE,
                                    !.old = ghost.installed,
                                    !.pc = "setup_add_key"])
    /\ UNCHANGED <<mapped, tpm>>

\* luks.rs:24-31: add_by_key puts the final key into the first keyslot.
SetupAddKey(p) ==
    /\ proc[p].pc = "setup_add_key"
    /\ \/ /\ Set(p, Return(proc[p], "DeviceError", "luks_format"))
          /\ UNCHANGED container
       \/ /\ container' = add_by_key(container, proc[p].final_key)
          /\ Set(p, [proc[p] EXCEPT !.key_used = proc[p].final_key,
                                    !.device = FALSE,
                                    !.tok = 1,
                                    !.pc = "setup_store"])
    /\ UNCHANGED <<mapped, tpm, ghost>>

\* main.rs:69-74, luks.rs:52-77: one round of the loop over the three
\* tokens; the function returns Ok after the third.
SetupStoreToken(p) ==
    /\ proc[p].pc = "setup_store"
    /\ \/ /\ Set(p, Return(proc[p], "DeviceError", "store_tokens"))
          /\ UNCHANGED <<container, ghost>>
       \/ LET r == proc[p]
              t == store_tokens(r.salt, r.pub_bytes, r.priv_bytes)[r.tok]
          IN  /\ container.luks
              /\ container' =
                    json_set(container, t.id, token_json(t.type, t.data))
              /\ IF r.tok < 3
                 THEN /\ Set(p, [r EXCEPT !.tok = @ + 1, !.device = TRUE])
                      /\ UNCHANGED ghost
                 ELSE /\ Set(p, Return(r, "none", ""))
                      /\ ghost' = [ghost EXCEPT
                            !.installed =
                                [valid |-> TRUE,
                                 password |-> r.password,
                                 salt |-> r.salt,
                                 secret |-> r.secret,
                                 final_key |-> r.final_key,
                                 pub_bytes |-> r.pub_bytes,
                                 priv_bytes |-> r.priv_bytes],
                            !.replaced = r.old]
    /\ UNCHANGED <<mapped, tpm>>

---------------------------------------------------------------------------
(* unlock (main.rs:87-110) *)

\* A faulty variant of UnlockLoadTokens: unlock draws a new salt instead of using the
\* stored one.
UnlockLoadTokensFreshSalt(p) ==
    /\ proc[p].pc = "unlock_load"
    /\ LET t == luks2_load_tpm_tokens(container)
           salt == tpm_random_bytes(tpm.draws + 1, SaltLen)
       IN  IF t.err # "none" THEN
               /\ Set(p, Return(proc[p], t.err, "load_tokens"))
               /\ UNCHANGED tpm
           ELSE
               /\ Set(p, [proc[p] EXCEPT
                        !.salt = salt,
                        !.pub_bytes = t.pub_bytes,
                        !.priv_bytes = t.priv_bytes,
                        !.kdf_output = derive_key(proc[p].password, salt),
                        !.pc = "unlock_primary"])
               /\ tpm' = [tpm EXCEPT !.draws = @ + 1]
    /\ UNCHANGED <<container, mapped, ghost>>

\* A faulty variant of UnlockLoadTokens: the TPM session is opened before the header
\* is read.
UnlockLoadTokensOpensSession(p) ==
    /\ proc[p].pc = "unlock_load"
    /\ LET t == luks2_load_tpm_tokens(container)
           r == [proc[p] EXCEPT !.ctx = TRUE, !.sessions = @ + 1]
       IN  IF t.err # "none" THEN
               Set(p, Return(r, t.err, "load_tokens"))
           ELSE IF derive_key_panics(r.password, t.salt) THEN
               Set(p, [Return(r, "Panic", "derive_key")
                         EXCEPT !.exit_code = 101])
           ELSE
               Set(p, [r EXCEPT
                         !.salt = t.salt,
                         !.pub_bytes = t.pub_bytes,
                         !.priv_bytes = t.priv_bytes,
                         !.kdf_output = derive_key(r.password, t.salt),
                         !.pc = "unlock_unseal"])
    /\ UNCHANGED <<container, mapped, tpm, ghost>>

\* main.rs:90-93: read the three tokens, then derive_key with the stored
\* salt.
UnlockLoadTokens(p) ==
    /\ proc[p].pc = "unlock_load"
    /\ \/ \* CryptInit::init fails
          Set(p, Return(proc[p], "DeviceError", "load_tokens"))
       \/ LET t == luks2_load_tpm_tokens(container) IN
          IF t.err # "none" THEN
              Set(p, Return(proc[p], t.err, "load_tokens"))
          ELSE IF derive_key_panics(proc[p].password, t.salt) THEN
              Set(p, [Return(proc[p], "Panic", "derive_key")
                        EXCEPT !.exit_code = 101])
          ELSE
              Set(p, [proc[p] EXCEPT
                        !.salt = t.salt,
                        !.pub_bytes = t.pub_bytes,
                        !.priv_bytes = t.priv_bytes,
                        !.kdf_output = derive_key(proc[p].password, t.salt),
                        !.pc = "unlock_primary"])
    /\ UNCHANGED <<container, mapped, tpm, ghost>>

\* A faulty variant of UnlockUnseal: an AuthFailure is answered by trying again.
UnlockUnsealRetries(p) ==
    /\ proc[p].pc = "unlock_unseal"
    /\ \/ /\ Set(p, Return(proc[p], "HardwareUnavailable", "unseal"))
          /\ UNCHANGED tpm
       \/ LET r == proc[p]
              u == unseal_secret(tpm, r.pub_bytes, r.priv_bytes,
                                 slice_b_of(r.kdf_output))
              n == [r EXCEPT !.unseals = @ + 1,
                             !.burned = @ + (u.tpm.failedTries
                                             - tpm.failedTries)]
          IN  /\ tpm' = u.tpm
              /\ IF u.err = "AuthFailure"
                 THEN Set(p, n)
                 ELSE IF u.err # "none"
                 THEN Set(p, Return(n, u.err, "unseal"))
                 ELSE Set(p, [n EXCEPT
                        !.secret = u.secret,
                        !.hw_secret = u.secret,
                        !.final_key =
                            compute_hmac(slice_a_of(r.kdf_output), u.secret),
                        !.pc = "unlock_open"])
    /\ UNCHANGED <<container, mapped, ghost>>

\* main.rs:96-103: unseal with auth slice_b, then the final key.
UnlockUnseal(p) ==
    /\ proc[p].pc = "unlock_unseal"
    /\ \/ /\ Set(p, Return(proc[p], "HardwareUnavailable", "unseal"))
          /\ UNCHANGED tpm
       \/ LET r == proc[p]
              u == unseal_secret(tpm, r.pub_bytes, r.priv_bytes,
                                 slice_b_of(r.kdf_output))
              n == [r EXCEPT !.unseals = @ + 1,
                             !.burned = @ + (u.tpm.failedTries
                                             - tpm.failedTries)]
          IN  /\ tpm' = u.tpm
              /\ IF u.err # "none"
                 THEN Set(p, Return(n, u.err, "unseal"))
                 ELSE Set(p, [n EXCEPT
                        !.secret = u.secret,
                        !.hw_secret = u.secret,
                        !.final_key =
                            compute_hmac(slice_a_of(r.kdf_output), u.secret),
                        !.pc = "unlock_open"])
    /\ UNCHANGED <<container, mapped, ghost>>

\* A faulty variant of UnlockOpen: the key that opened the device is enrolled again.
UnlockOpenEnrolsKey(p) ==
    /\ proc[p].pc = "unlock_open"
    /\ LET e == luks_open(container, proc[p].final_key, mapped)
           r == [proc[p] EXCEPT !.key_used = proc[p].final_key]
       IN  IF e \notin {"none", "AlreadyActive"}
           THEN /\ Set(p, Return(r, e, "luks_open"))
                /\ UNCHANGED <<mapped, container>>
           ELSE /\ Set(p, [Return(r, "none", "") EXCEPT !.activated = TRUE])
                /\ mapped' = TRUE
                /\ container' = add_by_key(container, proc[p].final_key)
    /\ UNCHANGED <<tpm, ghost>>

\* main.rs:105-109, luks.rs:35-48: open the device under the name "data".
UnlockOpen(p) ==
    /\ proc[p].pc = "unlock_open"
    /\ \/ /\ Set(p, Return(proc[p], "DeviceError", "luks_open"))
          /\ UNCHANGED mapped
       \/ LET e == luks_open(container, proc[p].final_key, mapped)
              r == [proc[p] EXCEPT !.key_used = proc[p].final_key]
          IN  IF e # "none"
              THEN /\ Set(p, Return(r, e, "luks_open"))
                   /\ UNCHANGED mapped
              ELSE /\ Set(p, [Return(r, "none", "")
                                EXCEPT !.activated = TRUE])
                   /\ mapped' = TRUE
    /\ UNCHANGED <<container, tpm, ghost>>

---------------------------------------------------------------------------
(* Specifications *)

Step(p) ==
    \/ CreatePrimary(p)
    \/ SetupSalt(p)
    \/ SetupSecret(p)
    \/ SetupSeal(p)
    \/ SetupFormat(p)
    \/ SetupAddKey(p)
    \/ SetupStoreToken(p)
    \/ UnlockLoadTokens(p)
    \/ UnlockUnseal(p)
    \/ UnlockOpen(p)

\* One invocation at a time: process 1 runs the program again and again.
Next ==
    \/ Main(1, MaxSetups)
    \/ Step(1)

Spec == Init /\ [][Next]_vars

\* Two invocations of the program at once, their steps interleaved.
Start(p) ==
    /\ proc[p].args = <<>>
    /\ Main(p, Cardinality(Procs))

NextConc ==
    \E p \in Procs :
        \/ Start(p)
        \/ Step(p)

SpecConc == Init /\ [][NextConc]_vars

---------------------------------------------------------------------------
(* The header records as functions: luks2_store_tpm_tokens and             *)
(* luks2_load_tpm_tokens applied to devices and payloads of any content.   *)

\* luks2_store_tpm_tokens (luks.rs:52-77) from its first line to its last:
\* the three json_set calls in the order of the loop.
luks2_store_tpm_tokens(c, salt, pub_bytes, priv_bytes) ==
    LET t == store_tokens(salt, pub_bytes, priv_bytes)
        w(d, k) == json_set(d, t[k].id, token_json(t[k].type, t[k].data))
    IN  w(w(w(c, 1), 2), 3)

\* Payloads handed to luks2_store_tpm_tokens: every byte value occurs, and
\* every length from 0 to MaxPayloadLen.
HeaderSalts ==
    { [i \in 1..n |-> (x + 85 * (i - 1)) % 256] :
        x \in 0..255, n \in 0..MaxPayloadLen }
HeaderPubs == { [i \in 1..n |-> b] : b \in {0, 255}, n \in 0..MaxPayloadLen }
HeaderPrivs == { [i \in 1..n |-> 255 - i] : n \in 0..MaxPayloadLen }

\* What a token slot of a device handed to luks2_load_tpm_tokens may hold:
\* nothing, a token without key_description, one whose key_description is
\* not Base64, one whose key_description is the empty string, a good one.
TokenStates == {"absent", "nodesc", "garbled", "empty", "valid"}

HeaderToken(st, id) ==
    IF st = "nodesc" THEN [type |-> "other", keyslots |-> <<>>]
    ELSE [type |-> "other", keyslots |-> <<>>,
          key_description |->
              IF st = "garbled" THEN <<"A", "*", "=", "=">>
              ELSE IF st = "empty" THEN <<>>
              ELSE BASE64_encode(<<id, 0, 255>>)]

HeaderDevice(f) ==
    [luks |-> TRUE, keyslots |-> <<ForeignKey>>,
     tokens |-> [id \in {j \in DOMAIN f : f[j] # "absent"} |->
                    HeaderToken(f[id], id)]]

HeaderDevices ==
    {BlankContainer} \cup
    { HeaderDevice(f) :
        f \in [{SaltToken, PubToken, PrivToken} -> TokenStates] }

NoRead == [err |-> "-", salt |-> <<>>, pub_bytes |-> <<>>, priv_bytes |-> <<>>]

\* The device that receives arbitrary payloads, and the payloads written to
\* the devices of arbitrary content.
FormattedDevice ==
    HeaderDevice([id \in {SaltToken, PubToken, PrivToken} |-> "absent"])
SamplePayloads ==
    [salt |-> <<0, 85, 170>>, pub_bytes |-> <<255, 255>>,
     priv_bytes |-> <<254>>]

\* ghost.input: the payloads luks2_store_tpm_tokens is called with;
\* ghost.written: the result of that call, once made; ghost.read: the result
\* of the last luks2_load_tpm_tokens since.
InitHeader ==
    /\ proc = [p \in Procs |-> IdleProc]
    /\ mapped = FALSE
    /\ tpm = [sealed |-> <<>>, draws |-> 0, failedTries |-> 0]
    /\ \E d \in HeaderDevices, salt \in HeaderSalts,
          pub_bytes \in HeaderPubs, priv_bytes \in HeaderPrivs :
          LET input == [salt |-> salt, pub_bytes |-> pub_bytes,
                        priv_bytes |-> priv_bytes]
          IN  /\ d = FormattedDevice \/ input = SamplePayloads
              /\ container = d
              /\ ghost = [input |-> input, written |-> "-", read |-> NoRead]

\* luks2_store_tpm_tokens(dev, salt, pub_bytes, priv_bytes)
HeaderStore ==
    /\ ghost.written = "-"
    /\ IF ~container.luks
       THEN \* load(Luks2) fails, nothing is written
            /\ ghost' = [ghost EXCEPT !.written = "DeviceError",
                                      !.read = NoRead]
            /\ UNCHANGED container
       ELSE /\ container' =
                luks2_store_tpm_tokens(container, ghost.input.salt,
                                       ghost.input.pub_bytes,
                                       ghost.input.priv_bytes)
            /\ ghost' = [ghost EXCEPT !.written = "none", !.read = NoRead]
    /\ UNCHANGED <<proc, mapped, tpm>>

\* luks2_load_tpm_tokens(dev)
HeaderLoad ==
    /\ ghost.read = NoRead
    /\ ghost' = [ghost EXCEPT !.read = luks2_load_tpm_tokens(container)]
    /\ UNCHANGED <<proc, container, mapped, tpm>>

NextHeader ==
    \/ HeaderStore
    \/ HeaderLoad

SpecHeader == InitHeader /\ [][NextHeader]_vars

---------------------------------------------------------------------------
(* The program given a device that a compatible enrolment tool set up for  *)
(* password "a" on this TPM, with a salt of its own choice of length.      *)

StoredSaltLens == {3, 16, 64}

EnrolledPassword == <<"a">>

EnrolledSalt(n) == [i \in 1..n |-> (7 * i) % 256]

EnrolledSecret == tpm_random_bytes(1, SecretLen)

EnrolledTpm(n) ==
    seal_secret([sealed |-> <<>>, draws |-> 1, failedTries |-> 0],
                EnrolledSecret,
                slice_b_of(derive_key(EnrolledPassword, EnrolledSalt(n))))

EnrolledContainer(n) ==
    luks2_store_tpm_tokens(
        add_by_key(crypt_format(BlankContainer),
                   compute_hmac(
                       slice_a_of(derive_key(EnrolledPassword,
                                             EnrolledSalt(n))),
                       EnrolledSecret)),
        EnrolledSalt(n), marshall_pub(1), private_blob(1))

InitDevice ==
    /\ proc = [p \in Procs |-> IdleProc]
    /\ \E n \in StoredSaltLens :
          /\ container = EnrolledContainer(n)
          /\ tpm = EnrolledTpm(n)
    /\ mapped = FALSE
    /\ ghost = [installed |-> NoSetup, replaced |-> NoSetup,
                setups |-> 0, salts |-> {}, secrets |-> {EnrolledSecret}]

SpecDevice == InitDevice /\ [][Next]_vars

---------------------------------------------------------------------------
(* Vocabulary of the claims *)

\* Failures that come from the state of the machine, not from the protocol:
\* the TPM or the device cannot be used, the TPM is locked out, the mapping
\* name is taken.
EnvErrors ==
    {"HardwareUnavailable", "HardwareLockedOut", "DeviceError",
     "AlreadyActive"}

Returned(p, workflow) ==
    proc[p].called = workflow /\ proc[p].pc = "idle"

\* The payload of header token id, decoded.
Payload(id) == BASE64_decode(container.tokens[id].key_description).bytes

\* The header tokens are exactly the three records of setup i.
HoldsRecordsOf(i) ==
    /\ DOMAIN container.tokens = {SaltToken, PubToken, PrivToken}
    /\ Payload(SaltToken) = i.salt
    /\ Payload(PubToken) = i.pub_bytes
    /\ Payload(PrivToken) = i.priv_bytes

\* The first n tokens (in the order setup writes them) are those of the
\* invocation r, and there are no others.
HoldsFirstRecordsOf(r, n) ==
    /\ DOMAIN container.tokens = 1..n
    /\ \A id \in 1..n :
          Payload(id) = store_tokens(r.salt, r.pub_bytes, r.priv_bytes)[id].data

---------------------------------------------------------------------------
(* C1: after a successful setup(p, dev), an unlock(p, dev) that follows it  *)
(* on a working TPM and device succeeds: it fails at no step of the        *)
(* protocol (never RecordMissing, RecordCorrupt, AuthFailure, WrongKey,    *)
(* LoadFailure or a panic), the key it computes is the FinalKey setup put  *)
(* into keyslot 0, and when it returns Ok the container is activated.      *)
C1_SetupThenUnlockSucceeds ==
    \A p \in Procs :
        LET r == proc[p]
            i == ghost.installed
        IN  (r.called = "unlock" /\ i.valid /\ r.password = i.password) =>
                /\ r.pc = "unlock_open" => r.final_key = i.final_key
                /\ r.pc = "idle" =>
                    /\ r.err \in {"none"} \cup EnvErrors
                    /\ r.key_used # NoKey => r.key_used = i.final_key
                    /\ r.err = "none" =>
                        /\ r.activated
                        /\ mapped
                        /\ r.key_used = i.final_key
                        /\ container.keyslots = << r.key_used >>

C1_Witness ==
    \E p \in Procs :
        /\ Returned(p, "unlock")
        /\ ghost.installed.valid
        /\ proc[p].password = ghost.installed.password
        /\ proc[p].err = "none"
        /\ proc[p].activated
        /\ proc[p].final_key = ghost.installed.final_key

(* C2: after a successful setup(p, dev), an unlock(q, dev) whose slice_b    *)
(* differs from that of p never gets the secret: it computes no FinalKey,  *)
(* does not activate the container, and returns an error; key derivation   *)
(* succeeds, and unless the TPM or the device is unusable the error is     *)
(* AuthFailure, raised by unseal.                                          *)
C2_WrongPasswordFailsAtUnseal ==
    \A p \in Procs :
        LET r == proc[p]
            i == ghost.installed
        IN  (/\ r.called = "unlock"
             /\ i.valid
             /\ slice_b_of(derive_key(r.password, i.salt))
                    # slice_b_of(derive_key(i.password, i.salt))) =>
                /\ r.pc # "unlock_open"
                /\ r.hw_secret = <<>>
                /\ r.final_key = NoKey
                /\ r.key_used = NoKey
                /\ ~r.activated
                /\ r.pc = "idle" =>
                    /\ r.err # "none"
                    /\ r.step # "derive_key"
                    /\ r.err \notin EnvErrors =>
                          r.err = "AuthFailure" /\ r.step = "unseal"
                    /\ r.err = "AuthFailure" => r.burned = 1

C2_Witness ==
    \E p \in Procs :
        /\ Returned(p, "unlock")
        /\ ghost.installed.valid
        /\ proc[p].password # ghost.installed.password
        /\ proc[p].err = "AuthFailure"
        /\ proc[p].step = "unseal"
        /\ proc[p].sessions = 1

(* C3, as claimed: a setup that fails never leaves the container formatted  *)
(* with its new key in keyslot 0 but without all three header records: the *)
(* container is as it was before, or completely set up.                    *)
C3_SetupAllOrNothing ==
    \A p \in Procs :
        (Returned(p, "setup") /\ proc[p].err # "none") =>
            \/ container = proc[p].pre
            \/ /\ container.keyslots = << proc[p].final_key >>
               /\ DOMAIN container.tokens = {SaltToken, PubToken, PrivToken}

(* C3, amended: a setup that fails before the format step (session, RNG,   *)
(* seal, opening the device) leaves the container exactly as it was; one   *)
(* that fails later is not rolled back and leaves what it had written so   *)
(* far: the new header, then its key in keyslot 0, then the first records  *)
(* in the order salt, public blob, private blob.                           *)
C3_FailedSetupLeavesWhatItWrote ==
    \A p \in Procs :
        LET r == proc[p] IN
        (Returned(p, "setup") /\ r.err # "none") =>
            IF r.formats = 0 THEN container = r.pre
            ELSE
                /\ r.step \in {"luks_format", "store_tokens"}
                /\ container.luks
                /\ \/ /\ container.keyslots = <<>>
                      /\ container.tokens = NoTokens
                   \/ /\ container.keyslots = << r.final_key >>
                      /\ r.step = "store_tokens"
                      /\ \E n \in 0..2 : HoldsFirstRecordsOf(r, n)

C3_Witness ==
    \E p \in Procs :
        /\ Returned(p, "setup")
        /\ proc[p].err = "DeviceError"
        /\ proc[p].step = "store_tokens"
        /\ container.keyslots = << proc[p].final_key >>
        /\ HoldsFirstRecordsOf(proc[p], 2)
        /\ container # proc[p].pre

(* C4: after setup(p1, dev) and then setup(p2, dev), p1 # p2, both         *)
(* successful, the only keyslot holds the second FinalKey, the first       *)
(* FinalKey opens nothing, tokens 1-3 are exactly the second setup's salt  *)
(* and blobs, unlock(p2) fails at no step of the protocol and unlock(p1)   *)
(* fails without activating the container.                                 *)
C4_SecondSetupReplacesFirst ==
    LET i == ghost.installed
        o == ghost.replaced
    IN  (i.valid /\ o.valid /\ i.password # o.password) =>
            /\ container.keyslots = << i.final_key >>
            /\ luks_open(container, o.final_key, FALSE) = "WrongKey"
            /\ luks_open(container, i.final_key, FALSE) = "none"
            /\ HoldsRecordsOf(i)
            /\ Payload(SaltToken) # o.salt
            /\ \A p \in Procs :
                  Returned(p, "unlock") =>
                    /\ proc[p].password = i.password =>
                          proc[p].err \in {"none"} \cup EnvErrors
                    /\ proc[p].password = o.password =>
                          /\ proc[p].err # "none"
                          /\ ~proc[p].activated
                          /\ proc[p].key_used = NoKey

C4_Witness ==
    /\ ghost.installed.valid
    /\ ghost.replaced.valid
    /\ ghost.installed.password # ghost.replaced.password
    /\ \E p \in Procs :
          /\ Returned(p, "unlock")
          /\ proc[p].password = ghost.replaced.password
          /\ proc[p].err = "AuthFailure"

(* C5: unlock on a container on which setup was never run finds no header  *)
(* records: it returns RecordMissing from the read of the header (or a     *)
(* DeviceError if the device cannot be opened at all), before any key is   *)
(* derived or the TPM is touched, and the container is not activated.      *)
C5_UnlockWithoutSetupRecordMissing ==
    \A p \in Procs :
        (proc[p].called = "unlock" /\ ghost.setups = 0) =>
            /\ proc[p].pc \in {"unlock_load", "idle"}
            /\ proc[p].sessions = 0
            /\ ~proc[p].activated
            /\ ~mapped
            /\ proc[p].pc = "idle" =>
                /\ proc[p].err \in {"RecordMissing", "DeviceError"}
                /\ proc[p].step = "load_tokens"
                /\ proc[p].exit_code = 1

C5_Witness ==
    \E p \in Procs :
        /\ Returned(p, "unlock")
        /\ ghost.setups = 0
        /\ container = ForeignContainer
        /\ proc[p].err = "RecordMissing"

(* C6: one unlock invocation asks the TPM to unseal at most once; one that *)
(* fails has used up at most one lockout credit, and one that succeeds     *)
(* none.  Setup never unseals.                                             *)
C6_UnsealAtMostOnce ==
    \A p \in Procs :
        /\ proc[p].unseals <= 1
        /\ proc[p].burned <= proc[p].unseals
        /\ proc[p].burned = 1 =>
              proc[p].pc = "idle" /\ proc[p].err = "AuthFailure"
        /\ (proc[p].pc = "idle" /\ proc[p].err = "none") =>
              proc[p].burned = 0
        /\ proc[p].called # "unlock" => proc[p].unseals = 0

C6_Witness ==
    \E p \in Procs :
        /\ Returned(p, "unlock")
        /\ proc[p].err = "AuthFailure"
        /\ proc[p].unseals = 1
        /\ proc[p].burned = 1
        /\ tpm.failedTries >= 1

(* C7: the container's persistent state (header, keyslots, tokens) changes *)
(* only in a step of setup; every step of unlock, whatever its outcome,    *)
(* leaves it as it was, and unlock never formats.                          *)
C7_OnlySetupWritesContainer ==
    [][ /\ container' # container =>
            \E p \in Procs :
                /\ proc[p].called = "setup"
                /\ proc[p].pc \in {"setup_format", "setup_add_key",
                                   "setup_store"}
                /\ proc'[p] # proc[p]
        /\ \A p \in Procs :
            (proc[p].called = "unlock" /\ proc'[p] # proc[p]
                /\ proc[p].pc # "idle") =>
                    /\ container' = container
                    /\ proc'[p].formats = 0 ]_vars

C7_Witness ==
    \E p \in Procs :
        /\ Returned(p, "unlock")
        /\ proc[p].activated
        /\ ghost.installed.valid
        /\ HoldsRecordsOf(ghost.installed)
        /\ container.keyslots = << ghost.installed.final_key >>

(* C8: there is no password-only path.  A workflow whose TPM session or    *)
(* primary key could not be made formats nothing, writes nothing and       *)
(* activates nothing; and every key handed to the container (to the        *)
(* keyslot in setup, to the activation in unlock) is HMAC(slice_a, secret) *)
(* with the secret handed out by the TPM, in a session opened in that same *)
(* invocation.                                                             *)
C8_NoPasswordOnlyFallback ==
    \A p \in Procs :
        LET r == proc[p] IN
        /\ (r.pc = "idle" /\ r.step = "create_primary") =>
                /\ r.err = "HardwareUnavailable"
                /\ r.formats = 0
                /\ r.key_used = NoKey
                /\ ~r.activated
                /\ r.called = "setup" => container = r.pre
        /\ (r.formats > 0 \/ r.key_used # NoKey \/ r.activated) =>
                /\ r.sessions = 1
                /\ r.hw_secret # <<>>
                /\ r.hw_secret \in ghost.secrets
        /\ r.key_used # NoKey =>
                /\ r.key_used.data = r.hw_secret
                /\ r.key_used.key.half = "a"
                /\ r.key_used.key.password = r.password

C8_Witness ==
    \E p \in Procs :
        /\ Returned(p, "setup")
        /\ proc[p].step = "create_primary"
        /\ proc[p].pre = ForeignContainer
        /\ container = ForeignContainer

(* C9: whatever setups and unlocks have run, the header holds the secret   *)
(* only sealed: tokens exist only in slots 1-3 and hold a salt, the public *)
(* blob and the private blob of a sealed object; no token holds a secret   *)
(* the TPM generated; a FinalKey is held by keyslot 0 and nowhere else.    *)
C9_OnlySealedSecretPersisted ==
    /\ DOMAIN container.tokens \subseteq {SaltToken, PubToken, PrivToken}
    /\ \A id \in DOMAIN container.tokens :
          LET d == BASE64_decode(container.tokens[id].key_description) IN
          /\ d.ok
          /\ d.bytes \notin ghost.secrets
          /\ container.tokens[id].key_description \notin ghost.secrets
          /\ container.tokens[id].keyslots = <<>>
          /\ id = SaltToken =>
                /\ container.tokens[id].type = "user.salt"
                /\ d.bytes \in ghost.salts
          /\ id = PubToken =>
                /\ container.tokens[id].type = "user.obj_pub"
                /\ \E k \in 1..Len(tpm.sealed) : d.bytes = marshall_pub(k)
          /\ id = PrivToken =>
                /\ container.tokens[id].type = "user.obj_priv"
                /\ \E k \in 1..Len(tpm.sealed) : d.bytes = private_blob(k)
    /\ Len(container.keyslots) <= 1
    /\ \A k \in 1..Len(container.keyslots) :
          \/ container.keyslots[k] = ForeignKey
          \/ /\ container.keyslots[k].data \in ghost.secrets
             /\ container.keyslots[k].key.half = "a"

C9_Witness ==
    /\ ghost.installed.valid
    /\ HoldsRecordsOf(ghost.installed)
    /\ container.keyslots = << ghost.installed.final_key >>
    /\ ghost.installed.secret \in ghost.secrets
    /\ \E p \in Procs : Returned(p, "unlock") /\ proc[p].err = "none"

(* C10, as claimed: with two invocations running at once, at most one TPM  *)
(* session is open at any time, at most one workflow is in the middle of   *)
(* writing the container, and two unlocks with a wrong password do not     *)
(* both hold a session in which they are about to unseal.                  *)
C10_OneSessionOneWorkflow ==
    /\ Cardinality({p \in Procs : proc[p].ctx}) <= 1
    /\ Cardinality({p \in Procs :
            proc[p].pc \in {"setup_add_key", "setup_store"}}) <= 1
    /\ Cardinality({p \in Procs : proc[p].pc = "unlock_unseal"}) <= 1

(* C11: once a setup or an unlock has returned, by Ok or by an error of    *)
(* any step, the TPM context it opened is closed and it holds no handle on *)
(* the container; a handle on the container is held only inside            *)
(* luks_format and luks2_store_tpm_tokens.                                 *)
C11_ReleasedOnEveryExit ==
    \A p \in Procs :
        /\ proc[p].pc = "idle" => ~proc[p].ctx /\ ~proc[p].device
        /\ proc[p].device => proc[p].pc \in {"setup_add_key", "setup_store"}
        /\ proc[p].ctx => proc[p].sessions = 1

C11_Witness ==
    \E p \in Procs :
        /\ Returned(p, "setup")
        /\ proc[p].step = "store_tokens"
        /\ proc[p].tok = 2
        /\ proc[p].sessions = 1
        /\ ~proc[p].ctx
        /\ ~proc[p].device

(* C12: luks2_load_tpm_tokens after luks2_store_tpm_tokens(salt, pub,      *)
(* priv) returns exactly (salt, pub, priv), whatever the bytes (0..255)    *)
(* and the lengths: salt is the payload of token 1, pub of token 2, priv   *)
(* of token 3.                                                             *)
C12_HeaderRoundTrip ==
    (ghost.written = "none" /\ ghost.read # NoRead) =>
        /\ ghost.read.err = "none"
        /\ ghost.read.salt = ghost.input.salt
        /\ ghost.read.pub_bytes = ghost.input.pub_bytes
        /\ ghost.read.priv_bytes = ghost.input.priv_bytes
        /\ DOMAIN container.tokens = {SaltToken, PubToken, PrivToken}
        /\ Payload(SaltToken) = ghost.input.salt
        /\ Payload(PubToken) = ghost.input.pub_bytes
        /\ Payload(PrivToken) = ghost.input.priv_bytes

C12_Witness ==
    /\ ghost.written = "none"
    /\ ghost.read.err = "none"
    /\ ghost.input.salt = <<255, 84, 169>>
    /\ ghost.read.salt = <<255, 84, 169>>
    /\ ghost.read.pub_bytes = <<0, 0>>
    /\ ghost.read.priv_bytes = <<254>>

\* Token id is there, has a key_description, and it decodes.
Decodable(id) ==
    /\ id \in DOMAIN container.tokens
    /\ "key_description" \in DOMAIN container.tokens[id]
    /\ BASE64_decode(container.tokens[id].key_description).ok

(* C13, as claimed: luks2_load_tpm_tokens returns a triple only when the   *)
(* device has a header and tokens 1, 2 and 3 are all there, decodable and  *)
(* of a payload that is not empty; otherwise it fails with RecordMissing   *)
(* or RecordCorrupt.                                                       *)
C13_LoadFailsOnBadRecord ==
    ghost.read # NoRead =>
        LET good == /\ container.luks
                    /\ \A id \in {SaltToken, PubToken, PrivToken} :
                          Decodable(id) /\ Payload(id) # <<>>
        IN  /\ good => ghost.read.err = "none"
            /\ ~good => ghost.read.err \in {"RecordMissing", "RecordCorrupt"}

(* C14, as claimed: an unlock that has read a salt of a length other than  *)
(* 64 from token 1 stops with KdfFailure reported as an error (exit status *)
(* 1), having opened no TPM session; with a salt of 64 bytes the           *)
(* derivation neither fails nor panics.                                    *)
C14_BadSaltIsKdfFailure ==
    \A p \in Procs :
        LET r == proc[p]
            t == luks2_load_tpm_tokens(r.pre)
        IN  (r.called = "unlock" /\ t.err = "none"
                /\ r.pc # "unlock_load" /\ r.step # "load_tokens") =>
                /\ Len(t.salt) # SaltLen =>
                      /\ r.pc = "idle"
                      /\ r.err = "KdfFailure"
                      /\ r.exit_code = 1
                      /\ r.sessions = 0
                /\ Len(t.salt) = SaltLen =>
                      r.err \notin {"KdfFailure", "Panic"}

(* C15: unlock draws nothing from the TPM RNG and derives with exactly the *)
(* salt held by token 1, which is the salt of the last complete setup;     *)
(* each setup draws at most twice, first a salt of 64 bytes and then a     *)
(* secret of 64 bytes, and no two draws ever gave the same bytes.          *)
C15_SaltStoredSecretFresh ==
    /\ \A p \in Procs :
        LET r == proc[p] IN
        /\ r.called = "unlock" =>
              /\ r.draws = 0
              /\ r.kdf_output # NoKdf =>
                    /\ SaltToken \in DOMAIN container.tokens
                    /\ r.salt = Payload(SaltToken)
                    /\ r.kdf_output =
                          derive_key(r.password, Payload(SaltToken))
                    /\ ghost.installed.valid =>
                          r.salt = ghost.installed.salt
        /\ r.called = "setup" =>
              /\ r.draws <= 2
              /\ r.salt # <<>> =>
                    /\ r.draws >= 1
                    /\ Len(r.salt) = SaltLen
                    /\ r.salt \in ghost.salts
                    /\ r.kdf_output = derive_key(r.password, r.salt)
              /\ r.secret # <<>> =>
                    /\ r.draws = 2
                    /\ Len(r.secret) = SecretLen
                    /\ r.secret \in ghost.secrets
                    /\ r.secret # r.salt
              /\ r.pc \in {"setup_seal", "setup_format", "setup_add_key",
                           "setup_store"} => r.secret # <<>>
              /\ (r.pc = "idle" /\ r.err = "none") => r.secret # <<>>
    /\ ghost.salts \cap ghost.secrets = {}
    /\ Cardinality(ghost.salts) + Cardinality(ghost.secrets) = tpm.draws
    /\ (ghost.installed.valid /\ ghost.replaced.valid) =>
          /\ ghost.installed.salt # ghost.replaced.salt
          /\ ghost.installed.secret # ghost.replaced.secret

C15_Witness ==
    \E p \in Procs :
        /\ Returned(p, "unlock")
        /\ proc[p].err = "none"
        /\ proc[p].draws = 0
        /\ ghost.replaced.valid
        /\ proc[p].salt = ghost.installed.salt
        /\ tpm.draws = 4

(* C16: a command line of any other length than verb and device, or with  *)
(* a verb other than setup and unlock, ends in usage and exit status 1:    *)
(* nobody is asked for a password, no TPM session is opened, nothing is    *)
(* drawn, sealed or unsealed, and the container is neither written nor     *)
(* opened.  Every other command line asks for the password.                *)
C16_BadCommandLineOnlyUsage ==
    \A p \in Procs :
        LET r == proc[p]
            bad == IF Len(r.args) # 3 THEN TRUE
                   ELSE r.args[2] \notin {"setup", "unlock"}
        IN  r.args # <<>> =>
                /\ bad =>
                      /\ r.pc = "idle"
                      /\ r.err = "Usage"
                      /\ r.exit_code = 1
                      /\ ~r.prompted
                      /\ r.typed = <<>>
                      /\ r.called = ""
                      /\ r.sessions = 0
                      /\ r.draws = 0 /\ r.seals = 0 /\ r.unseals = 0
                      /\ r.formats = 0
                      /\ r.key_used = NoKey
                      /\ ~r.activated
                      /\ container = r.pre
                /\ ~bad => r.prompted /\ r.err # "Usage"

C16_Witness ==
    \E p \in Procs :
        /\ proc[p].args = <<"prog", "unlock", "dev", "data">>
        /\ proc[p].err = "Usage"
        /\ proc[p].exit_code = 1
        /\ ghost.installed.valid
        /\ HoldsRecordsOf(ghost.installed)
        /\ ~mapped

(* C17: setup formats the container only after the TPM session was opened, *)
(* salt and secret were drawn, the key was derived and the secret was      *)
(* sealed; it writes tokens only after the format and the enrolment of the *)
(* key; a setup that failed at a TPM step left the container as it found   *)
(* it.                                                                     *)
C17_SetupTouchesContainerLast ==
    \A p \in Procs :
        LET r == proc[p] IN
        r.called = "setup" =>
            /\ (r.formats > 0 \/ r.pc = "setup_format") =>
                  /\ r.sessions = 1
                  /\ r.draws = 2
                  /\ r.seals = 1
                  /\ r.kdf_output # NoKdf
                  /\ r.final_key # NoKey
                  /\ r.pub_bytes # <<>> /\ r.priv_bytes # <<>>
            /\ r.formats <= 1
            /\ r.formats = 0 => container = r.pre /\ r.tok = 0
            /\ r.tok >= 1 => r.formats = 1 /\ r.key_used = r.final_key
            /\ (r.formats = 1 /\ r.tok = 0) => container.tokens = NoTokens
            /\ (r.pc = "idle" /\ r.step \in {"create_primary",
                    "random_bytes", "derive_key", "seal_secret"}) =>
                  /\ r.formats = 0
                  /\ container = r.pre

C17_Witness ==
    \E p \in Procs :
        /\ Returned(p, "setup")
        /\ proc[p].err = "SealFailure"
        /\ proc[p].draws = 2
        /\ ghost.installed.valid
        /\ HoldsRecordsOf(ghost.installed)
        /\ container.keyslots = << ghost.installed.final_key >>

(* C18: unlock reads the tokens, derives, opens the TPM session, unseals,  *)
(* computes the final key and opens the container, in this order, and a    *)
(* step that fails is the last one: an unlock that failed with             *)
(* RecordMissing or RecordCorrupt opened no TPM session and used up no     *)
(* lockout credit.                                                         *)
C18_UnlockOrder ==
    \A p \in Procs :
        LET r == proc[p] IN
        r.called = "unlock" =>
            /\ r.sessions > 0 =>
                  /\ r.kdf_output # NoKdf
                  /\ r.pub_bytes # <<>> /\ r.priv_bytes # <<>>
            /\ r.kdf_output # NoKdf => luks2_load_tpm_tokens(r.pre).err = "none"
            /\ r.unseals > 0 => r.sessions = 1
            /\ r.final_key # NoKey => r.unseals = 1 /\ r.hw_secret # <<>>
            /\ r.key_used # NoKey => r.key_used = r.final_key
            /\ r.activated => r.key_used # NoKey /\ r.err = "none"
            /\ r.pc = "idle" =>
                  /\ r.step = "load_tokens" =>
                        r.kdf_output = NoKdf /\ r.sessions = 0
                  /\ r.step = "derive_key" => r.sessions = 0
                  /\ r.step = "create_primary" =>
                        r.sessions = 0 /\ r.unseals = 0
                  /\ r.step = "unseal" =>
                        r.final_key = NoKey /\ r.key_used = NoKey
                  /\ r.step = "luks_open" => ~r.activated
                  /\ r.err # "none" => ~r.activated
                  /\ r.err \in {"RecordMissing", "RecordCorrupt"} =>
                        /\ r.step = "load_tokens"
                        /\ r.sessions = 0
                        /\ r.unseals = 0
                        /\ r.burned = 0

C18_Witness ==
    \E p \in Procs :
        /\ Returned(p, "unlock")
        /\ proc[p].err = "RecordMissing"
        /\ container.luks
        /\ DOMAIN container.tokens = {SaltToken, PubToken}
        /\ tpm.failedTries = 1
        /\ proc[p].sessions = 0

(* C19: the TPM is asked for random bytes, to seal or to unseal only in a  *)
(* session that is open and has its primary key; one invocation opens one  *)
(* session at most and in it either seals once (setup, after its two       *)
(* draws) or unseals once (unlock, without a draw), never both; once it    *)
(* has sealed or unsealed it asks the TPM for nothing more.                *)
C19_SealerStateMachine ==
    \A p \in Procs :
        LET r == proc[p] IN
        /\ r.sessions <= 1
        /\ r.pc \in {"setup_salt", "setup_secret", "setup_seal",
                     "unlock_unseal"} => r.ctx /\ r.sessions = 1
        /\ (r.draws + r.seals + r.unseals > 0) => r.sessions = 1
        /\ r.seals + r.unseals <= 1
        /\ r.seals = 1 => r.called = "setup" /\ r.draws = 2
        /\ r.unseals = 1 => r.called = "unlock" /\ r.draws = 0
        /\ r.pc \in {"setup_format", "setup_add_key", "setup_store"} =>
              r.seals = 1
        /\ r.pc = "unlock_open" => r.unseals = 1
        /\ r.pc = "setup_seal" => r.seals = 0 /\ r.draws = 2
        /\ r.pc = "unlock_unseal" => r.unseals = 0

C19_Witness ==
    \E p \in Procs :
        /\ proc[p].pc = "unlock_open"
        /\ proc[p].ctx
        /\ proc[p].unseals = 1
        /\ proc[p].seals = 0
        /\ proc[p].draws = 0

\* t is s without the whitespace at its two ends.
Stripped(s, t) ==
    /\ \E i \in 0..Len(s), j \in 0..Len(s) :
          /\ i + j <= Len(s)
          /\ t = SubSeq(s, i + 1, Len(s) - j)
          /\ \A k \in 1..i : s[k] \in Whitespace
          /\ \A k \in (Len(s) - j + 1)..Len(s) : s[k] \in Whitespace
    /\ t # <<>> => t[1] \notin Whitespace /\ t[Len(t)] \notin Whitespace

(* C20: in setup and in unlock the password used is what was typed without *)
(* the whitespace at its two ends, and the derived halves depend on the    *)
(* typed text only through it: an unlock whose typed text strips to the    *)
(* password of the last complete setup fails at no step of the protocol,   *)
(* whatever whitespace was typed around it.                                *)
C20_PasswordTrimmed ==
    \A p \in Procs :
        LET r == proc[p]
            i == ghost.installed
        IN  r.called # "" =>
                /\ Stripped(r.typed, r.password)
                /\ r.kdf_output # NoKdf =>
                      r.kdf_output = derive_key(r.password, r.salt)
                /\ (r.called = "unlock" /\ i.valid /\ r.pc = "idle"
                        /\ Stripped(r.typed, i.password)) =>
                      /\ r.err \in {"none"} \cup EnvErrors
                      /\ r.err = "none" => r.key_used = i.final_key

C20_Witness ==
    \E p \in Procs :
        /\ Returned(p, "unlock")
        /\ proc[p].typed = <<" ", "a", "\n">>
        /\ ghost.installed.valid
        /\ ghost.installed.password = <<"a">>
        /\ proc[p].err = "none"
        /\ proc[p].activated

=============================================================================
